---- MODULE Spec2Model ----
(***************************************************************************)
(* A model of exp02-openmp-src/sharedVars_main.cpp: the generic routine    *)
(* accumulate<T, policy>(start, end), instantiated at T = int, under its   *)
(* five execution policies, and the timing harness main() around it.       *)
(*                                                                         *)
(* One call of accumulate is a state machine: the calling thread runs the  *)
(* seq loop itself, or forks an OpenMP team ("#pragma omp parallel for"),  *)
(* whose threads execute the iterations assigned to them and meet at the   *)
(* implicit barrier that ends the region; then the caller returns sum.     *)
(* A step of a thread is one access to shared memory:                      *)
(*   par       sum += i is a load of sum, then a store of the loaded value *)
(*             plus i (a data race: another thread may store in between);  *)
(*   atomic    sum += i is one indivisible read-modify-write;              *)
(*   critical  the same load and store, between the acquisition and the    *)
(*             release of the lock of the unnamed critical region;         *)
(*   par_reduce each thread adds into a private copy of sum, initialised   *)
(*             to 0, and combines it into the shared sum when its          *)
(*             iterations are done, before the barrier.                    *)
(* T = int is a 32 bit signed integer.  A signed overflow is undefined     *)
(* behaviour; the builds of this program (gcc, clang, msvc on two's         *)
(* complement machines) produce the value wrapped modulo 2^32, which is    *)
(* what Add32 yields, and the model records in ovf that it has happened.   *)
(* TLC's own integers are 32 bit and stop on overflow, so every operator   *)
(* below is written to stay within them.                                   *)
(***************************************************************************)
EXTENDS Integers, Sequences, FiniteSets, TLC

\* ------------------------------------------------------------------ bounds
\* Small inputs are drawn from -MaxNeg .. MaxPos, ranges hold at most MaxLen
\* indices, a team has at most MaxThreads threads.
MaxNeg == 2
MaxPos == 3
MaxLen == 3
MaxThreads == 3
\* The stopwatch reports 0 .. MaxMs milliseconds.
MaxMs == 1
\* main's n, scaled down for the harness specification.
ScaledN == 2
\* The deep sequential specification: the n of its first call (the least n
\* whose sum 0 + 1 + ... + (n-1) exceeds IntMax) and the number of iterations
\* it follows a loop for.
DeepN == 65537
MaxIter == 65600

\* --------------------------------------------------------------- constants
\* std::numeric_limits<int>::max()
IntMax == 2147483647
IntMin == -2147483647 - 1
\* constexpr int n = std::numeric_limits<int>::max() >> 3;
MainN == 268435455

VARIABLES
    policy,     \* the ExecutionPolicy template argument of the call
    start,      \* const T& start
    end,        \* const T& end
    cpc,        \* where the calling thread is in accumulate
    sum,        \* T sum: the accumulator (shared by the team)
    ovf,        \* a signed overflow has happened in this call
    si,         \* the induction variable of the seq loop
    nthreads,   \* the size of the team (0: no team)
    owner,      \* the thread each index of [start, end) is assigned to
    pc,         \* where each thread of the team is
    tmp,        \* per thread: the value of sum it has loaded
    priv,       \* per thread: its private copy of sum (reduction)
    done,       \* the indices a thread of the team has added (sum += i completed)
    lock,       \* the thread inside the critical region, 0 when free
    ret,        \* the value accumulate returned
    mpc,        \* where main is
    phase,      \* the strategy main is running, 1 .. 5
    msum,       \* main's int sum
    elapsed,    \* what timeCounter.msecond() reports
    serialTime, \* main's serialTime
    out,        \* the lines written to std::cout
    exitCode    \* main's return value, -1 while it runs

accVars == <<policy, start, end, cpc, sum, ovf, si, nthreads, owner, pc, tmp,
             priv, done, lock, ret>>
mainVars == <<mpc, phase, msum, elapsed, serialTime, out, exitCode>>
vars == <<policy, start, end, cpc, sum, ovf, si, nthreads, owner, pc, tmp,
          priv, done, lock, ret, mpc, phase, msum, elapsed, serialTime, out,
          exitCode>>

\* enum class ExecutionPolicy
ExecutionPolicy == {"seq", "par", "atomic", "critical", "par_reduce"}
Parallel == ExecutionPolicy \ {"seq"}
\* The strategies the specification calls correct.
Correct == ExecutionPolicy \ {"par"}

Threads == 1 .. MaxThreads

\* ------------------------------------------------------- 32 bit arithmetic
\* a + b leaves the range of int.
Overflows(a, b) ==
    \/ b > 0 /\ a > IntMax - b
    \/ b < 0 /\ a < IntMin - b

\* sum += i on a 32 bit int: a + b, wrapped modulo 2^32 on overflow.
Add32(a, b) ==
    IF b > 0 /\ a > IntMax - b THEN (a + IntMin) + (b + IntMin)
    ELSE IF b < 0 /\ a < IntMin - b THEN (a - IntMin) + (b - IntMin)
    ELSE a + b

\* A faulty variant of the loop test: the upper bound is included.
LoopTestInclusive(i, e) == i <= e

\* The test "i < end" of the loop "for (T i = start; i < end; ++i)".
LoopTest(i, e) == i < e

\* The indices the loop goes through.
Range(s, e) == {i \in s .. e : LoopTest(i, e)}

Min(S) == CHOOSE x \in S : \A y \in S : x <= y

\* A faulty variant of the distribution: every thread goes through all the
\* indices (the loop is not workshared).
RemainingAll(t) == {i \in DOMAIN owner : i \notin done}

\* The indices assigned to thread t that it has not executed yet.
Remaining(t) == {i \in DOMAIN owner : owner[i] = t /\ i \notin done}

\* The index thread t executes next: a thread goes through its indices in
\* increasing order.
NextIndex(t) == Min(Remaining(t))

\* ------------------------------------------------------------------- Init
\* The state of a call after "T sum = 0;".
AccEntry(p, s, e) ==
    /\ policy = p
    /\ start = s
    /\ end = e
    /\ cpc = "begin"
    /\ sum = 0
    /\ ovf = FALSE
    /\ si = s
    /\ nthreads = 0
    /\ owner = <<>>
    /\ pc = [t \in Threads |-> "off"]
    /\ tmp = [t \in Threads |-> 0]
    /\ priv = [t \in Threads |-> 0]
    /\ done = {}
    /\ lock = 0
    /\ ret = 0

\* No main: accumulate is called on its own.
NoMain ==
    /\ mpc = "none"
    /\ phase = 0
    /\ msum = 0
    /\ elapsed = 0
    /\ serialTime = 0
    /\ out = <<>>
    /\ exitCode = -1

SmallVals == (0 - MaxNeg) .. MaxPos

\* The arguments of the calls checked: every pair of small values whose range
\* holds at most MaxLen indices (empty and reversed ranges included), and the
\* ranges that end just below IntMax, where two additions leave the range of
\* int.
Inputs ==
    {<<s, e>> \in SmallVals \X SmallVals : e - s <= MaxLen}
    \cup {<<(IntMax - 1) - k, IntMax - 1>> : k \in 1 .. MaxLen}

Init ==
    /\ \E p \in ExecutionPolicy, in \in Inputs : AccEntry(p, in[1], in[2])
    /\ NoMain

\* ------------------------------------------------------------ seq (27-30)
SeqBegin ==
    /\ cpc = "begin"
    /\ policy = "seq"
    /\ cpc' = "seqloop"
    /\ si' = start
    /\ UNCHANGED mainVars
    /\ UNCHANGED <<policy, start, end, sum, ovf, nthreads, owner, pc, tmp,
                   priv, done, lock, ret>>

\* One iteration: the test i < end, sum += i, ++i.
SeqStep ==
    /\ cpc = "seqloop"
    /\ LoopTest(si, end)
    /\ si - start < MaxIter
    /\ sum' = Add32(sum, si)
    /\ ovf' = (ovf \/ Overflows(sum, si))
    /\ si' = si + 1
    /\ UNCHANGED mainVars
    /\ UNCHANGED <<policy, start, end, cpc, nthreads, owner, pc, tmp, priv,
                   done, lock, ret>>

\* The test i < end fails: the loop is left.
SeqExit ==
    /\ cpc = "seqloop"
    /\ ~LoopTest(si, end)
    /\ cpc' = "joined"
    /\ UNCHANGED mainVars
    /\ UNCHANGED <<policy, start, end, sum, ovf, si, nthreads, owner, pc, tmp,
                   priv, done, lock, ret>>

\* ------------------------------------------- #pragma omp parallel for
\* The team is formed and the indices are distributed: every index of
\* [start, end) goes to exactly one thread (the schedule is the
\* implementation's choice).
Fork ==
    /\ cpc = "begin"
    /\ policy \in Parallel
    /\ \E n \in Threads :
        /\ nthreads' = n
        /\ owner' \in [Range(start, end) -> 1 .. n]
        /\ pc' = [t \in Threads |-> IF t <= n THEN "loop" ELSE "off"]
    /\ cpc' = "team"
    /\ UNCHANGED mainVars
    /\ UNCHANGED <<policy, start, end, sum, ovf, si, tmp, priv, done, lock,
                   ret>>

\* par (31-35): the load of sum in "sum += i".
ParRead(t) ==
    /\ cpc = "team" /\ policy = "par"
    /\ pc[t] = "loop"
    /\ Remaining(t) # {}
    /\ tmp' = [tmp EXCEPT ![t] = sum]
    /\ pc' = [pc EXCEPT ![t] = "write"]
    /\ UNCHANGED mainVars
    /\ UNCHANGED <<policy, start, end, cpc, sum, ovf, si, nthreads, owner,
                   priv, done, lock, ret>>

\* par: the store of the loaded value plus i.
ParWrite(t) ==
    /\ cpc = "team" /\ policy = "par"
    /\ pc[t] = "write"
    /\ sum' = Add32(tmp[t], NextIndex(t))
    /\ ovf' = (ovf \/ Overflows(tmp[t], NextIndex(t)))
    /\ done' = done \cup {NextIndex(t)}
    /\ pc' = [pc EXCEPT ![t] = "loop"]
    /\ UNCHANGED mainVars
    /\ UNCHANGED <<policy, start, end, cpc, si, nthreads, owner, tmp, priv,
                   lock, ret>>

\* atomic (36-41): "#pragma omp atomic" makes sum += i one step.
AtomicAdd(t) ==
    /\ cpc = "team" /\ policy = "atomic"
    /\ pc[t] = "loop"
    /\ Remaining(t) # {}
    /\ sum' = Add32(sum, NextIndex(t))
    /\ ovf' = (ovf \/ Overflows(sum, NextIndex(t)))
    /\ done' = done \cup {NextIndex(t)}
    /\ UNCHANGED mainVars
    /\ UNCHANGED <<policy, start, end, cpc, si, nthreads, owner, pc, tmp,
                   priv, lock, ret>>

\* A faulty variant of the admission test: the region is not guarded.
LockFreeWrong == TRUE

\* critical (42-49): "#pragma omp critical" admits a thread when no thread is
\* inside.
LockFree == lock = 0

CritEnter(t) ==
    /\ cpc = "team" /\ policy = "critical"
    /\ pc[t] = "loop"
    /\ Remaining(t) # {}
    /\ LockFree
    /\ lock' = t
    /\ pc' = [pc EXCEPT ![t] = "cread"]
    /\ UNCHANGED mainVars
    /\ UNCHANGED <<policy, start, end, cpc, sum, ovf, si, nthreads, owner,
                   tmp, priv, done, ret>>

CritRead(t) ==
    /\ cpc = "team" /\ policy = "critical"
    /\ pc[t] = "cread"
    /\ tmp' = [tmp EXCEPT ![t] = sum]
    /\ pc' = [pc EXCEPT ![t] = "cwrite"]
    /\ UNCHANGED mainVars
    /\ UNCHANGED <<policy, start, end, cpc, sum, ovf, si, nthreads, owner,
                   priv, done, lock, ret>>

CritWrite(t) ==
    /\ cpc = "team" /\ policy = "critical"
    /\ pc[t] = "cwrite"
    /\ sum' = Add32(tmp[t], NextIndex(t))
    /\ ovf' = (ovf \/ Overflows(tmp[t], NextIndex(t)))
    /\ done' = done \cup {NextIndex(t)}
    /\ pc' = [pc EXCEPT ![t] = "cexit"]
    /\ UNCHANGED mainVars
    /\ UNCHANGED <<policy, start, end, cpc, si, nthreads, owner, tmp, priv,
                   lock, ret>>

\* A faulty variant of the end of the critical region: the lock is kept.
CritExitKeepsLock(t) ==
    /\ cpc = "team" /\ policy = "critical"
    /\ pc[t] = "cexit"
    /\ pc' = [pc EXCEPT ![t] = "loop"]
    /\ UNCHANGED mainVars
    /\ UNCHANGED <<policy, start, end, cpc, sum, ovf, si, nthreads, owner,
                   tmp, priv, done, lock, ret>>

\* The end of the critical region: the lock is released.
CritExit(t) ==
    /\ cpc = "team" /\ policy = "critical"
    /\ pc[t] = "cexit"
    /\ lock' = 0
    /\ pc' = [pc EXCEPT ![t] = "loop"]
    /\ UNCHANGED mainVars
    /\ UNCHANGED <<policy, start, end, cpc, sum, ovf, si, nthreads, owner,
                   tmp, priv, done, ret>>

\* par_reduce (50-56): sum += i acts on the thread's private copy.
ReduceAdd(t) ==
    /\ cpc = "team" /\ policy = "par_reduce"
    /\ pc[t] = "loop"
    /\ Remaining(t) # {}
    /\ priv' = [priv EXCEPT ![t] = Add32(priv[t], NextIndex(t))]
    /\ ovf' = (ovf \/ Overflows(priv[t], NextIndex(t)))
    /\ done' = done \cup {NextIndex(t)}
    /\ UNCHANGED mainVars
    /\ UNCHANGED <<policy, start, end, cpc, sum, si, nthreads, owner, pc,
                   tmp, lock, ret>>

\* A faulty variant of the combination: the private copy is stored over the
\* original sum instead of being added to it.
ReduceCombineOverwrite(t) ==
    /\ cpc = "team" /\ policy = "par_reduce"
    /\ pc[t] = "loop"
    /\ Remaining(t) = {}
    /\ sum' = priv[t]
    /\ pc' = [pc EXCEPT ![t] = "done"]
    /\ UNCHANGED mainVars
    /\ UNCHANGED <<policy, start, end, cpc, ovf, si, nthreads, owner, tmp,
                   priv, done, lock, ret>>

\* par_reduce: the thread's iterations are done; its private copy is combined
\* into the original sum, indivisibly, and the thread goes to the barrier.
ReduceCombine(t) ==
    /\ cpc = "team" /\ policy = "par_reduce"
    /\ pc[t] = "loop"
    /\ Remaining(t) = {}
    /\ sum' = Add32(sum, priv[t])
    /\ ovf' = (ovf \/ Overflows(sum, priv[t]))
    /\ pc' = [pc EXCEPT ![t] = "done"]
    /\ UNCHANGED mainVars
    /\ UNCHANGED <<policy, start, end, cpc, si, nthreads, owner, tmp, priv,
                   done, lock, ret>>

\* A thread of the other parallel policies has no index left and waits at the
\* barrier that ends the loop.
ThreadFinish(t) ==
    /\ cpc = "team" /\ policy \in {"par", "atomic", "critical"}
    /\ pc[t] = "loop"
    /\ Remaining(t) = {}
    /\ pc' = [pc EXCEPT ![t] = "done"]
    /\ UNCHANGED mainVars
    /\ UNCHANGED <<policy, start, end, cpc, sum, ovf, si, nthreads, owner,
                   tmp, priv, done, lock, ret>>

\* A faulty variant of the barrier: one thread at it is enough (nowait).
AllAtBarrierWrong == \E t \in 1 .. nthreads : pc[t] = "done"

\* The barrier lets the caller go when every thread of the team is at it.
AllAtBarrier == \A t \in 1 .. nthreads : pc[t] = "done"

\* The end of the parallel region: the team is joined.
Join ==
    /\ cpc = "team"
    /\ AllAtBarrier
    /\ cpc' = "joined"
    /\ UNCHANGED mainVars
    /\ UNCHANGED <<policy, start, end, sum, ovf, si, nthreads, owner, pc, tmp,
                   priv, done, lock, ret>>

\* return sum; (56)
Return ==
    /\ cpc = "joined"
    /\ ret' = sum
    /\ cpc' = "returned"
    /\ UNCHANGED mainVars
    /\ UNCHANGED <<policy, start, end, sum, ovf, si, nthreads, owner, pc, tmp,
                   priv, done, lock>>

ThreadStep(t) ==
    \/ ParRead(t)
    \/ ParWrite(t)
    \/ AtomicAdd(t)
    \/ CritEnter(t)
    \/ CritRead(t)
    \/ CritWrite(t)
    \/ CritExit(t)
    \/ ReduceAdd(t)
    \/ ReduceCombine(t)
    \/ ThreadFinish(t)

AccNext ==
    \/ SeqBegin
    \/ SeqStep
    \/ SeqExit
    \/ Fork
    \/ \E t \in Threads : ThreadStep(t)
    \/ Join
    \/ Return

Next == AccNext

Spec == Init /\ [][Next]_vars

\* ---------------------------------------------------------------- liveness
\* The steps of the calling thread.
CallerStep == SeqBegin \/ SeqStep \/ SeqExit \/ Fork \/ Join \/ Return

\* The calls followed to their end: accumulate(0, n) as main calls it, for
\* every n up to MaxLen, under each policy.
FairInit ==
    /\ \E p \in ExecutionPolicy, n \in 0 .. MaxLen : AccEntry(p, 0, n)
    /\ NoMain

\* The operating system runs every thread that can take a step: the caller
\* and each thread of the team.
FairSpec ==
    /\ FairInit
    /\ [][Next]_vars
    /\ WF_vars(CallerStep)
    /\ \A t \in Threads : WF_vars(ThreadStep(t))

\* ------------------------------------------------- the deep sequential runs
\* accumulate<int, seq>(0, n) for the least n whose sum leaves the range of
\* int, and for the n of main; the loop is followed for MaxIter iterations.
DeepInit ==
    /\ \E n \in {DeepN, MainN} : AccEntry("seq", 0, n)
    /\ NoMain

DeepNext == SeqBegin \/ SeqStep \/ SeqExit \/ Return

DeepSpec == DeepInit /\ [][DeepNext]_vars

\* ------------------------------------------------------------ main (59-113)
\* The strategies in the order main runs them.
PolicyOf(k) ==
    CASE k = 1 -> "seq"
      [] k = 2 -> "par"
      [] k = 3 -> "atomic"
      [] k = 4 -> "critical"
      [] k = 5 -> "par_reduce"

\* The label of a strategy's result line.
LabelOf(k) ==
    CASE k = 1 -> "Serial"
      [] k = 2 -> "OpenMP"
      [] k = 3 -> "OpenMP atomic"
      [] k = 4 -> "OpenMP critical"
      [] k = 5 -> "OpenMP reduce"

\* The stopwatch: what msecond() may report after endCounting().
TimerReadings == 0 .. MaxMs

\* A faulty variant of accRatio: the strategy's own time as numerator.
AccRatioWrong(originTime, targetTime) == <<targetTime, targetTime>>

\* accRatio(originTime, targetTime): the quotient originTime / targetTime,
\* kept as numerator and denominator.
AccRatio(originTime, targetTime) == <<originTime, targetTime>>

\* No call of accumulate is in progress.
AccNone ==
    /\ policy = "seq"
    /\ start = 0
    /\ end = 0
    /\ cpc = "none"
    /\ sum = 0
    /\ ovf = FALSE
    /\ si = 0
    /\ nthreads = 0
    /\ owner = <<>>
    /\ pc = [t \in Threads |-> "off"]
    /\ tmp = [t \in Threads |-> 0]
    /\ priv = [t \in Threads |-> 0]
    /\ done = {}
    /\ lock = 0
    /\ ret = 0

MainInit ==
    /\ AccNone
    /\ mpc = "call"
    /\ phase = 1
    /\ msum = 0
    /\ elapsed = 0
    /\ serialTime = 0
    /\ out = <<>>
    /\ exitCode = -1

\* timeCounter.init(); timeCounter.startCounting(); and the call
\* accumulate<int, policy>(0, n) is entered.
MainCall ==
    /\ mpc = "call"
    /\ policy' = PolicyOf(phase)
    /\ start' = 0
    /\ end' = ScaledN
    /\ cpc' = "begin"
    /\ sum' = 0
    /\ ovf' = FALSE
    /\ si' = 0
    /\ nthreads' = 0
    /\ owner' = <<>>
    /\ pc' = [t \in Threads |-> "off"]
    /\ tmp' = [t \in Threads |-> 0]
    /\ priv' = [t \in Threads |-> 0]
    /\ done' = {}
    /\ lock' = 0
    /\ ret' = 0
    /\ elapsed' = 0
    /\ mpc' = "in"
    /\ UNCHANGED <<phase, msum, serialTime, out, exitCode>>

\* The call has returned: sum = its value; timeCounter.endCounting().
MainEndCounting ==
    /\ mpc = "in"
    /\ cpc = "returned"
    /\ msum' = ret
    /\ elapsed' \in TimerReadings
    /\ mpc' = "print"
    /\ cpc' = "none"
    /\ UNCHANGED <<phase, serialTime, out, exitCode>>
    /\ UNCHANGED <<policy, start, end, sum, ovf, si, nthreads, owner, pc, tmp,
                   priv, done, lock, ret>>

\* std::cout << std::format("<label>: {:>5} ms, sum = {}\n", msecond(), sum)
MainPrintResult ==
    /\ mpc = "print"
    /\ out' = Append(out, [kind |-> "result", label |-> LabelOf(phase),
                           ms |-> elapsed, sum |-> msum])
    /\ mpc' = IF phase = 1 THEN "serial" ELSE "speedup"
    /\ UNCHANGED <<phase, msum, elapsed, serialTime, exitCode>>
    /\ UNCHANGED accVars

\* auto serialTime = timeCounter.msecond(); (74)
MainSerialTime ==
    /\ mpc = "serial"
    /\ serialTime' = elapsed
    /\ phase' = phase + 1
    /\ mpc' = "call"
    /\ UNCHANGED <<msum, elapsed, out, exitCode>>
    /\ UNCHANGED accVars

\* std::cout << std::format("Speedup: ...", accRatio(serialTime, msecond()))
MainPrintSpeedup ==
    /\ mpc = "speedup"
    /\ out' = Append(out, [kind |-> "speedup", label |-> LabelOf(phase),
                           ratio |-> AccRatio(serialTime, elapsed)])
    /\ IF phase < 5
       THEN phase' = phase + 1 /\ mpc' = "call"
       ELSE phase' = phase /\ mpc' = "exit"
    /\ UNCHANGED <<msum, elapsed, serialTime, exitCode>>
    /\ UNCHANGED accVars

\* return 0; (112)
MainReturn ==
    /\ mpc = "exit"
    /\ exitCode' = 0
    /\ mpc' = "exited"
    /\ UNCHANGED <<phase, msum, elapsed, serialTime, out>>
    /\ UNCHANGED accVars

MainNext ==
    \/ MainCall
    \/ MainEndCounting
    \/ MainPrintResult
    \/ MainSerialTime
    \/ MainPrintSpeedup
    \/ MainReturn
    \/ AccNext

MainSpec == MainInit /\ [][MainNext]_vars

\* ------------------------------------------------------- exact arithmetic
\* The integers, without the 32 bit limit: <<q, r>> stands for q * 2^16 + r
\* with 0 <= r < 2^16, so that each integer has one representation.
Base == 256 * 256

Wide(x) == <<x \div Base, x % Base>>

WideAdd(w, x) ==
    LET t == w[2] + (x % Base)
    IN  <<w[1] + (x \div Base) + (t \div Base), t % Base>>

\* The sum of all integers i with s <= i < e.
RECURSIVE ExactSum(_, _)
ExactSum(s, e) ==
    IF s >= e THEN Wide(0) ELSE WideAdd(ExactSum(s, e - 1), e - 1)

\* r = n(n-1)/2 for n >= 0 and r an int: the product x * y of the even
\* factor halved and the odd factor is at most IntMax, and r is that product.
EqualsGauss(r, n) ==
    LET x == IF n % 2 = 0 THEN n \div 2 ELSE n
        y == IF n % 2 = 0 THEN n - 1 ELSE (n - 1) \div 2
    IN  IF n <= 1 THEN r = 0
        ELSE x <= IntMax \div y /\ r = x * y

\* n(n-1)/2 for the small n of Inputs.
Gauss(n) == (n * (n - 1)) \div 2

\* What the seq loop computes from start and end alone.
RECURSIVE SeqFold(_, _)
SeqFold(s, e) ==
    IF s >= e THEN 0 ELSE Add32(SeqFold(s, e - 1), e - 1)

Returned == cpc = "returned"

\* The threads of the team that were assigned at least one index.
Workers == {t \in 1 .. nthreads : \E i \in DOMAIN owner : owner[i] = t}

\* The threads inside the critical region.
InCritical == {t \in Threads : pc[t] \in {"cread", "cwrite", "cexit"}}

\* ================================================================ claims

\* C1: accumulate(0, n), n >= 1, under seq, atomic, critical and par_reduce
\* returns exactly n(n-1)/2, whatever the team and the interleaving.
\* (Checked under DeepSpec, where n = DeepN: the sum leaves the range of int.)
C1_ClosedForm ==
    (Returned /\ policy \in Correct /\ start = 0 /\ end >= 1)
        => EqualsGauss(ret, end)

\* C1, where no addition overflows: the same statement for the calls of Spec,
\* whose n is at most MaxPos.  It holds there for all four policies.
C1_ClosedFormSmall ==
    (Returned /\ policy \in Correct /\ start = 0 /\ end >= 1 /\ end <= MaxPos)
        => ret = Gauss(end)

\* C2: accumulate(0, n) under the unsynchronized par policy returns at most
\* n(n-1)/2 in every execution.
C2_ParAtMostClosedForm ==
    (Returned /\ policy = "par" /\ start = 0 /\ end >= 0)
        => ret <= Gauss(end)

\* C2's case: a racy run of two or more threads has returned less than the
\* closed form.
C2_Witness ==
    /\ Returned /\ policy = "par" /\ start = 0
    /\ Cardinality(Workers) >= 2
    /\ ret < Gauss(end)

\* C3: under par, a returned value that differs from n(n-1)/2 exists
\* (C3_Witness), and it needs what the claim names: n >= 2 and two threads
\* that each executed an index, one of which stored over the other's update.
C3_MismatchNeedsRace ==
    (Returned /\ policy = "par" /\ start = 0 /\ end >= 0 /\ ret # Gauss(end))
        => end >= 2 /\ nthreads >= 2 /\ Cardinality(Workers) >= 2

\* C3's case: the smallest call the claim covers, accumulate(0, 2) with two
\* threads, has returned a value other than 1.
C3_Witness ==
    /\ Returned /\ policy = "par" /\ start = 0 /\ end = 2 /\ nthreads = 2
    /\ ret # Gauss(end)

\* C4: under seq, atomic, critical and par_reduce the returned value is a
\* function of start and end alone (the value the seq loop computes), so two
\* runs with the same bounds return the same sum whatever their thread
\* counts, assignments and interleavings.
C4_Deterministic ==
    (Returned /\ policy \in Correct) => ret = SeqFold(start, end)

\* C4's case: a team of MaxThreads threads, each with an index of its own,
\* has returned.
C4_Witness ==
    /\ Returned /\ policy \in Parallel \ {"par"}
    /\ nthreads = MaxThreads /\ Cardinality(Workers) = MaxThreads

\* C5: for start >= end no iteration executes, the accumulator keeps its
\* initial value 0 and accumulate returns 0, under all five policies.
C5_EmptyRange ==
    start >= end =>
        /\ sum = 0
        /\ done = {}
        /\ si = start
        /\ \A t \in Threads : priv[t] = 0
        /\ Returned => ret = 0

\* C5's case: a team of two or more threads of the racy policy has returned
\* from a call with start > end.
C5_Witness ==
    /\ Returned /\ policy = "par" /\ start > end /\ nthreads >= 2

\* C6: for start <= end, accumulate under seq, atomic, critical and
\* par_reduce returns the sum of all integers i with start <= i < end.
C6_SumOfRange ==
    (Returned /\ policy \in Correct /\ start <= end)
        => Wide(ret) = ExactSum(start, end)

\* C7: under every parallel policy a call eventually returns when the threads
\* are scheduled fairly; it is past the join only when every thread of the
\* team is at the barrier with all the indices of its range executed; and
\* the accumulator is written only while the loop runs, never once the
\* region is left and the return value is read.
C7_ForkJoin ==
    /\ (policy \in Parallel) => <>Returned
    /\ []((policy \in Parallel /\ cpc \in {"joined", "returned"}) =>
            /\ \A t \in 1 .. nthreads : pc[t] = "done" /\ Remaining(t) = {}
            /\ done = Range(start, end)
            /\ lock = 0)
    /\ [][sum' # sum => (cpc \in {"seqloop", "team"} /\ cpc' = cpc)]_vars

\* C7's case: a team of two or more threads that contended for the critical
\* region has been joined and the call has returned.
C7_Witness ==
    /\ Returned /\ policy = "critical"
    /\ Cardinality(Workers) >= 2
    /\ end - start = MaxLen

\* The lines main writes, in order: kind and label.
ExpectedLines ==
    << <<"result", "Serial">>,
       <<"result", "OpenMP">>, <<"speedup", "OpenMP">>,
       <<"result", "OpenMP atomic">>, <<"speedup", "OpenMP atomic">>,
       <<"result", "OpenMP critical">>, <<"speedup", "OpenMP critical">>,
       <<"result", "OpenMP reduce">>, <<"speedup", "OpenMP reduce">> >>

\* The number of lines written when strategy k starts.
LinesBefore(k) == IF k = 1 THEN 0 ELSE 2 * k - 3

\* C8: main runs seq, par, atomic, critical, par_reduce once each in this
\* order, a call starting only when the lines of the strategies before it
\* are written; each parallel strategy's result line is followed by a speedup
\* line, the serial one's is not; every ratio has the serial run's elapsed
\* time as numerator (and that strategy's as denominator); main returns 0
\* once all nine lines are written.
C8_MainOrder ==
    /\ Len(out) <= Len(ExpectedLines)
    /\ \A j \in 1 .. Len(out) :
        /\ <<out[j].kind, out[j].label>> = ExpectedLines[j]
        /\ out[j].kind = "speedup" =>
            out[j].ratio = <<out[1].ms, out[j - 1].ms>>
    /\ phase \in 1 .. 5
    /\ cpc # "none" =>
        /\ mpc = "in"
        /\ policy = PolicyOf(phase) /\ start = 0 /\ end = ScaledN
    /\ mpc \in {"call", "in"} => Len(out) = LinesBefore(phase)
    /\ exitCode = (IF mpc = "exited" THEN 0 ELSE -1)
    /\ mpc \in {"exit", "exited"} => Len(out) = Len(ExpectedLines)

\* C8's case: main has returned after runs whose serial time differs from
\* every parallel strategy's time.
C8_Witness ==
    /\ mpc = "exited"
    /\ Len(out) = 9
    /\ \A j \in {2, 4, 6, 8} : out[j].ms # out[1].ms

\* C9: in main's own serial run, accumulate<int, seq>(0, MainN), no addition
\* leaves the range of int: every intermediate sum is the exact sum of the
\* indices added so far (which is never negative).
C9_NoOverflowInMain ==
    (policy = "seq" /\ start = 0 /\ end = MainN) => (~ovf /\ sum >= 0)

\* C10: under the critical policy at most one thread is inside the critical
\* region, that thread holds the lock, and the accumulator still holds the
\* value a thread inside has loaded until that thread stores.
C10_MutualExclusion ==
    policy = "critical" =>
        /\ Cardinality(InCritical) <= 1
        /\ \A t \in InCritical : lock = t
        /\ InCritical = {} => lock = 0
        /\ \A t \in Threads : pc[t] = "cwrite" => tmp[t] = sum

\* C10's case: a thread is between its load and its store of a nonzero
\* accumulator while another thread with an index left waits to enter.
C10_Witness ==
    /\ policy = "critical"
    /\ \E t, u \in Threads :
        /\ t # u
        /\ pc[t] = "cwrite" /\ sum # 0
        /\ pc[u] = "loop" /\ Remaining(u) # {}

\* The sum of the integers of a finite set S, without the 32 bit limit.
RECURSIVE ExactSumOf(_)
ExactSumOf(S) ==
    IF S = {} THEN Wide(0)
    ELSE LET x == CHOOSE y \in S : TRUE
         IN  WideAdd(ExactSumOf(S \ {x}), x)

\* The sum of the integers of S as int's + computes it (modulo 2^32, in
\* whatever order).
RECURSIVE Sum32Of(_)
Sum32Of(S) ==
    IF S = {} THEN 0
    ELSE LET x == CHOOSE y \in S : TRUE
         IN  Add32(Sum32Of(S \ {x}), x)

\* C11: under the atomic policy the shared accumulator equals, in every
\* reachable state, the sum of the indices of exactly those iterations whose
\* update has completed.
C11_NoLostUpdate ==
    policy = "atomic" => Wide(sum) = ExactSumOf(done)

\* C11, in the arithmetic of int: the accumulator is the sum modulo 2^32 of
\* exactly the completed indices, and their exact sum as long as no addition
\* has overflowed.  This holds in every state of Spec.
C11_NoLostUpdateWrapped ==
    policy = "atomic" =>
        /\ sum = Sum32Of(done)
        /\ ~ovf => Wide(sum) = ExactSumOf(done)

\* The range assigned to thread t.
Assigned(t) == {i \in DOMAIN owner : owner[i] = t}

\* The indices thread t has executed.
Executed(t) == {i \in done : owner[i] = t}

\* The private copies of the threads of T, added up as int's + does.
RECURSIVE SumPriv(_)
SumPriv(T) ==
    IF T = {} THEN 0
    ELSE LET t == CHOOSE u \in T : TRUE
         IN  Add32(SumPriv(T \ {t}), priv[t])

\* The same sum without the 32 bit limit.
RECURSIVE ExactSumPriv(_)
ExactSumPriv(T) ==
    IF T = {} THEN Wide(0)
    ELSE LET t == CHOOSE u \in T : TRUE
         IN  WideAdd(ExactSumPriv(T \ {t}), priv[t])

\* The threads of the team that have combined their private copy.
Combined == {t \in 1 .. nthreads : pc[t] = "done"}

\* The loop is running: the team is active and an index is still to be
\* executed.
LoopRunning == cpc = "team" /\ done # Range(start, end)

\* C12, its last clause: under par_reduce, after the join the accumulator and
\* the returned value are the initial 0 plus the sum of all threads' partial
\* sums, each partial sum being the sum of the indices of its thread's
\* iterations.
C12_ReturnsSumOfPartials ==
    (policy = "par_reduce" /\ cpc \in {"joined", "returned"}) =>
        /\ \A t \in 1 .. nthreads : Wide(priv[t]) = ExactSumOf(Assigned(t))
        /\ Wide(sum) = ExactSumPriv(1 .. nthreads)
        /\ Returned => Wide(ret) = ExactSumPriv(1 .. nthreads)

\* The clause of C12 on the shared accumulator: under par_reduce it is never
\* written while the loop is running, it stays 0 until the join (here for the
\* calls accumulate(0, n), as main makes them).  Spec violates it without any
\* overflow: a thread that has finished its range combines its partial sum
\* while other threads still loop.
C12_SharedUntouchedUntilJoin ==
    (policy = "par_reduce" /\ start = 0 /\ LoopRunning) => sum = 0

\* What holds of the reduction in every state of Spec: each private partial
\* sum is the sum modulo 2^32 of the indices its thread has executed (the
\* exact sum while nothing has overflowed); the shared accumulator is the
\* initial 0 plus the partial sums of exactly the threads that have finished
\* their range and combined; the returned value is 0 plus all the partial
\* sums, added as int's + adds them.
C12_CombinedWhenFinished ==
    policy = "par_reduce" =>
        /\ \A t \in 1 .. nthreads :
            /\ priv[t] = Sum32Of(Executed(t))
            /\ ~ovf => Wide(priv[t]) = ExactSumOf(Executed(t))
            /\ pc[t] = "done" => Remaining(t) = {}
        /\ \A t \in Threads : t > nthreads => priv[t] = 0
        /\ sum = SumPriv(Combined)
        /\ ~ovf => Wide(sum) = ExactSumPriv(Combined)
        /\ Returned => ret = SumPriv(1 .. nthreads)

\* A thread has combined a nonzero partial sum into the shared accumulator
\* while another thread still has an index to execute.
C12_Witness ==
    /\ policy = "par_reduce" /\ cpc = "team"
    /\ sum # 0
    /\ \E t, u \in 1 .. nthreads :
        /\ pc[t] = "done" /\ priv[t] # 0
        /\ pc[u] = "loop" /\ Remaining(u) # {}

\* Thread t performs the update "sum += i" of an iteration.
Executes(t) == ParWrite(t) \/ AtomicAdd(t) \/ CritWrite(t) \/ ReduceAdd(t)

\* C13: under every parallel policy the ranges assigned to the threads of
\* the team are pairwise disjoint and their union is [start, end); each
\* execution of an iteration is that of one index of the executing thread's
\* range that has not been executed before; and when the team is joined
\* every index has been executed.
C13_Partition ==
    /\ []((policy \in Parallel /\ cpc \in {"team", "joined", "returned"}) =>
            /\ DOMAIN owner = Range(start, end)
            /\ UNION {Assigned(t) : t \in 1 .. nthreads} = Range(start, end)
            /\ \A t, u \in 1 .. nthreads :
                t # u => Assigned(t) \cap Assigned(u) = {}
            /\ done \subseteq Range(start, end)
            /\ cpc # "team" => done = Range(start, end))
    /\ [][\A t \in Threads :
            Executes(t) =>
                \E i \in Assigned(t) : i \notin done /\ done' = done \cup {i}]_vars
    /\ [][done' # done => \E t \in Threads : Executes(t)]_vars

\* C13's case: a team with more threads than indices has returned; a thread
\* had an empty range and every index was executed.
C13_Witness ==
    /\ Returned /\ policy \in Parallel
    /\ Range(start, end) # {}
    /\ nthreads > Cardinality(Range(start, end))
    /\ \E t \in 1 .. nthreads : Assigned(t) = {}
    /\ done = Range(start, end)

\* v <= w for integers without the 32 bit limit.
WideLeq(v, w) == v[1] < w[1] \/ (v[1] = w[1] /\ v[2] <= w[2])

\* C14: under the unsynchronized par policy with start >= 0 the shared
\* accumulator is, in every reachable state, the sum of a set of pairwise
\* distinct indices of [start, end), hence between 0 and the sum of the whole
\* range.
C14_SubsetSum ==
    (policy = "par" /\ start >= 0) =>
        /\ \E S \in SUBSET Range(start, end) : Wide(sum) = ExactSumOf(S)
        /\ sum >= 0
        /\ WideLeq(Wide(sum), ExactSum(start, end))

\* C14, in the arithmetic of int: the accumulator is the sum modulo 2^32 of
\* a set of distinct indices, and, as long as no addition has overflowed,
\* their exact sum, between 0 and the sum of the range.  This holds in every
\* state of Spec: a lost update drops addends and never duplicates one.
C14_SubsetSumWrapped ==
    (policy = "par" /\ start >= 0) =>
        /\ \E S \in SUBSET Range(start, end) : sum = Sum32Of(S)
        /\ ~ovf =>
            /\ \E S \in SUBSET Range(start, end) : Wide(sum) = ExactSumOf(S)
            /\ sum >= 0
            /\ WideLeq(Wide(sum), ExactSum(start, end))

\* C15: a par call executed by a single thread returns the value the seq
\* loop returns for the same bounds, the sum of [start, end); a par call whose
\* returned value is not that sum had at least two threads that each executed
\* an iteration.
C15_SingleThreadSum ==
    (Returned /\ policy = "par") =>
        /\ nthreads = 1 =>
            /\ ret = SeqFold(start, end)
            /\ Wide(ret) = ExactSum(start, end)
        /\ Wide(ret) # ExactSum(start, end) =>
            /\ Cardinality(Workers) >= 2
            /\ \A t \in Workers : Executed(t) # {}

\* What holds of a one-thread par call in every state of Spec: it returns the
\* value of the seq loop, which is the sum of [start, end) only when no
\* addition overflowed; a par call that returns another value than the seq
\* loop had at least two threads that each executed an iteration.
C15_SingleThreadIsSeq ==
    (Returned /\ policy = "par") =>
        /\ nthreads = 1 => ret = SeqFold(start, end)
        /\ (nthreads = 1 /\ ~ovf) => Wide(ret) = ExactSum(start, end)
        /\ ret # SeqFold(start, end) =>
            /\ Cardinality(Workers) >= 2
            /\ \A t \in Workers : Executed(t) # {}

\* A one-thread par call over at least two indices has returned the value of
\* the seq loop.
C15_Witness ==
    /\ Returned /\ policy = "par" /\ nthreads = 1
    /\ Cardinality(Range(start, end)) >= 2
    /\ Executed(1) = Range(start, end)
    /\ ret = SeqFold(start, end) /\ ret # 0

====
